---- MODULE Spec2Model ----
(***************************************************************************)
(* Model of capsules/src/process_console.rs: the ProcessConsole capsule,   *)
(* its UART client callbacks and the UART's outstanding requests.          *)
(***************************************************************************)
EXTENDS Integers, Sequences, FiniteSets, TLC

\* ---- bounds of the model ----
\* new() accepts a command buffer of any length; the model builds consoles
\* with command buffers of 2..MaxCap bytes.
MaxCap == 3
\* receive_complete is delivered with reported lengths 0..MaxRxLen.
MaxRxLen == 2

\* the write operations are also exercised on their own, on transmit
\* buffers of 1..MaxTxCap bytes with arguments of 0..MaxWrite bytes
MaxTxCap == 2
MaxWrite == 3
\* the 'h','i',newline scenario types lines of at most MaxTyped bytes
MaxTyped == 2

\* ---- program constants ----
TxCap == 64
RxCap == 16
CmdCap == 16
NUL == 0
BS == 8
LF == 10
CR == 13
SPACE == 32

CmdCaps == 2..MaxCap
\* byte values delivered by the UART: NUL, backspace, LF, CR, 'h', 'i'
InBytes == {NUL, BS, LF, CR, 104, 105}
Printable == 32..126
Errors == {"CommandComplete", "ParityError"}
RxLens == 0..MaxRxLen

VARIABLES
  running,          \* Cell<bool>
  tx_in_progress,   \* Cell<bool>
  rx_in_progress,   \* Cell<bool>
  tx_buffer,        \* TakeCell: TRUE when the console holds the transmit buffer
  tx_data,          \* the bytes of the transmit buffer (WRITE_BUF)
  rx_buffer,        \* TakeCell: TRUE when the console holds the receive buffer
  rx_data,          \* the bytes of the receive buffer (READ_BUF)
  command_buffer,   \* the bytes of the command buffer (COMMAND_BUF)
  command_index,    \* Cell<usize>
  uart_tx,          \* transmit requests outstanding at the UART (bytes to send)
  uart_rx,          \* receive requests outstanding at the UART (requested lengths)
  line,             \* bytes typed since the cursor was last reset, or Dirty
  last,             \* record of the last call into the console
  echoes,           \* echo writes made for the current line, or Off
  twin_buffer,      \* command buffer of a console whose transmitter is never busy
  twin_index        \* cursor of that console

pvars == <<running, tx_in_progress, rx_in_progress, tx_buffer, tx_data,
           rx_buffer, rx_data, command_buffer, command_index, uart_tx, uart_rx>>
vars == <<running, tx_in_progress, rx_in_progress, tx_buffer, tx_data,
          rx_buffer, rx_data, command_buffer, command_index, uart_tx, uart_rx,
          line, last, echoes, twin_buffer, twin_index>>

Dirty == <<-1>>
\* the echo history is recorded in the scenario specification only
Off == <<[fn |-> "off", ret |-> "off", req |-> <<>>]>>
Min(a, b) == IF a < b THEN a ELSE b
Zeros(n) == [i \in 1..n |-> NUL]

NoCall ==
  [op |-> "new", ret |-> "none", byte |-> NUL, len |-> 0, err |-> "none",
   index |-> 0, wfn |-> "none", wret |-> "none", rx_issued |-> <<>>,
   execute |-> FALSE, handed |-> <<>>, typed |-> <<>>, bytes |-> <<>>,
   order |-> <<>>, twin_handed |-> <<>>]

\* ProcessConsole::new with the static buffers (all zero).
new ==
  /\ running = FALSE
  /\ tx_in_progress = FALSE
  /\ rx_in_progress = FALSE
  /\ tx_buffer = TRUE
  /\ tx_data = Zeros(TxCap)
  /\ rx_buffer = TRUE
  /\ rx_data = Zeros(RxCap)
  /\ \E c \in CmdCaps : command_buffer = Zeros(c)
  /\ command_index = 0
  /\ uart_tx = <<>>
  /\ uart_rx = <<>>
  /\ line = <<>>
  /\ last = NoCall
  /\ echoes = Off
  /\ twin_buffer = command_buffer
  /\ twin_index = 0

Init == new

\* The transmit side of the console as one value.
TxNow ==
  [in_progress |-> tx_in_progress, held |-> tx_buffer, data |-> tx_data,
   uart |-> uart_tx]


\* ---- mutants of start ----
start_len16 ==
  /\ IF running = FALSE /\ rx_buffer
     THEN /\ rx_buffer' = FALSE
          /\ rx_in_progress' = TRUE
          /\ uart_rx' = Append(uart_rx, RxCap)
          /\ running' = TRUE
     ELSE UNCHANGED <<rx_buffer, rx_in_progress, uart_rx, running>>
  /\ last' = [NoCall EXCEPT !.op = "start", !.ret = "SUCCESS",
                !.rx_issued = IF running = FALSE /\ rx_buffer
                              THEN <<RxCap>> ELSE <<>>]
  /\ UNCHANGED <<tx_in_progress, tx_buffer, tx_data, rx_data, command_buffer,
                 command_index, uart_tx, line, echoes, twin_buffer, twin_index>>

\* the first call does not set rx_in_progress
start_noflag ==
  /\ IF running = FALSE /\ rx_buffer
     THEN /\ rx_buffer' = FALSE
          /\ uart_rx' = Append(uart_rx, 1)
          /\ running' = TRUE
          /\ UNCHANGED rx_in_progress
     ELSE UNCHANGED <<rx_buffer, rx_in_progress, uart_rx, running>>
  /\ last' = [NoCall EXCEPT !.op = "start", !.ret = "SUCCESS",
                !.rx_issued = IF running = FALSE /\ rx_buffer
                              THEN <<1>> ELSE <<>>]
  /\ UNCHANGED <<tx_in_progress, tx_buffer, tx_data, rx_data, command_buffer,
                 command_index, uart_tx, line, echoes, twin_buffer, twin_index>>

\* ProcessConsole::start
start ==
  /\ IF running = FALSE /\ rx_buffer
     THEN /\ rx_buffer' = FALSE
          /\ rx_in_progress' = TRUE
          /\ uart_rx' = Append(uart_rx, 1)
          /\ running' = TRUE
     ELSE UNCHANGED <<rx_buffer, rx_in_progress, uart_rx, running>>
  /\ last' = [NoCall EXCEPT !.op = "start", !.ret = "SUCCESS",
                !.rx_issued = IF running = FALSE /\ rx_buffer
                              THEN <<1>> ELSE <<>>]
  /\ UNCHANGED <<tx_in_progress, tx_buffer, tx_data, rx_data, command_buffer,
                 command_index, uart_tx, line, echoes, twin_buffer, twin_index>>

\* ---- mutant of read_command: the cursor is not reset ----
read_command_noreset(command, index) ==
  [command |-> [command EXCEPT ![1] = NUL], index |-> index, handed |-> command]

\* ---- mutant of read_command: the first byte is not zeroed ----
read_command_nozero(command, index) ==
  [command |-> command, index |-> 0, handed |-> command]

\* ProcessConsole::read_command: the buffer is handed off (debug-printed),
\* then command[0] = 0 and command_index = 0.
read_command(command, index) ==
  [command |-> [command EXCEPT ![1] = NUL], index |-> 0, handed |-> command]

\* ---- mutants of write_byte ----
\* the busy path still stores the byte in the buffer
write_byte_dirty(tx, byte) ==
  IF tx.in_progress
  THEN [ret |-> "EBUSY", tx |-> [tx EXCEPT !.data = [tx.data EXCEPT ![1] = byte]]]
  ELSE IF tx.held
       THEN LET buffer == [tx.data EXCEPT ![1] = byte]
            IN [ret |-> "SUCCESS",
                tx |-> [in_progress |-> TRUE, held |-> FALSE, data |-> buffer,
                        uart |-> Append(tx.uart, SubSeq(buffer, 1, 1))]]
       ELSE [ret |-> "SUCCESS", tx |-> [tx EXCEPT !.in_progress = TRUE]]

\* no busy check, the request is issued on the static buffer
write_byte_nocheck(tx, byte) ==
  LET buffer == [tx.data EXCEPT ![1] = byte]
  IN [ret |-> "SUCCESS",
      tx |-> [in_progress |-> TRUE, held |-> FALSE, data |-> buffer,
              uart |-> Append(tx.uart, SubSeq(buffer, 1, 1))]]

\* the buffer is taken and the flag set, but no transmit is requested
write_byte_notransmit(tx, byte) ==
  IF tx.in_progress
  THEN [ret |-> "EBUSY", tx |-> tx]
  ELSE IF tx.held
       THEN LET buffer == [tx.data EXCEPT ![1] = byte]
            IN [ret |-> "SUCCESS",
                tx |-> [in_progress |-> TRUE, held |-> FALSE, data |-> buffer,
                        uart |-> tx.uart]]
       ELSE [ret |-> "SUCCESS", tx |-> [tx EXCEPT !.in_progress = TRUE]]

\* ProcessConsole::write_byte
write_byte(tx, byte) ==
  IF tx.in_progress
  THEN [ret |-> "EBUSY", tx |-> tx]
  ELSE IF tx.held
       THEN LET buffer == [tx.data EXCEPT ![1] = byte]
            IN [ret |-> "SUCCESS",
                tx |-> [in_progress |-> TRUE, held |-> FALSE, data |-> buffer,
                        uart |-> Append(tx.uart, SubSeq(buffer, 1, 1))]]
       ELSE [ret |-> "SUCCESS", tx |-> [tx EXCEPT !.in_progress = TRUE]]

\* ---- mutant of write_bytes: the whole buffer is transmitted ----
write_bytes_whole(tx, bytes) ==
  IF tx.in_progress
  THEN [ret |-> "EBUSY", tx |-> tx]
  ELSE IF tx.held
       THEN LET len == Min(Len(bytes), Len(tx.data))
                buffer == [i \in 1..Len(tx.data) |->
                             IF i <= len THEN bytes[i] ELSE tx.data[i]]
            IN [ret |-> "SUCCESS",
                tx |-> [in_progress |-> TRUE, held |-> FALSE, data |-> buffer,
                        uart |-> Append(tx.uart, buffer)]]
       ELSE [ret |-> "SUCCESS", tx |-> [tx EXCEPT !.in_progress = TRUE]]

\* ProcessConsole::write_bytes
write_bytes(tx, bytes) ==
  IF tx.in_progress
  THEN [ret |-> "EBUSY", tx |-> tx]
  ELSE IF tx.held
       THEN LET len == Min(Len(bytes), Len(tx.data))
                buffer == [i \in 1..Len(tx.data) |->
                             IF i <= len THEN bytes[i] ELSE tx.data[i]]
            IN [ret |-> "SUCCESS",
                tx |-> [in_progress |-> TRUE, held |-> FALSE, data |-> buffer,
                        uart |-> Append(tx.uart, SubSeq(buffer, 1, len))]]
       ELSE [ret |-> "SUCCESS", tx |-> [tx EXCEPT !.in_progress = TRUE]]

\* ---- mutant of transmit_complete: the flag is not cleared ----
transmit_complete_noclear(error) ==
  /\ uart_tx # <<>>
  /\ uart_tx' = Tail(uart_tx)
  /\ tx_buffer' = TRUE
  /\ last' = [NoCall EXCEPT !.op = "transmit_complete"]
  /\ UNCHANGED <<tx_in_progress, running, rx_in_progress, tx_data, rx_buffer,
                 rx_data, command_buffer, command_index, uart_rx, line,
                 echoes, twin_buffer, twin_index>>

\* ---- mutant of transmit_complete: the command line is reset as well ----
transmit_complete_reset(error) ==
  /\ uart_tx # <<>>
  /\ uart_tx' = Tail(uart_tx)
  /\ tx_buffer' = TRUE
  /\ tx_in_progress' = FALSE
  /\ command_index' = 0
  /\ last' = [NoCall EXCEPT !.op = "transmit_complete"]
  /\ UNCHANGED <<running, rx_in_progress, tx_data, rx_buffer, rx_data,
                 command_buffer, uart_rx, line,
                 echoes, twin_buffer, twin_index>>

\* Client::transmit_complete, delivered by the UART for its oldest
\* outstanding transmit request.
transmit_complete(error) ==
  /\ uart_tx # <<>>
  /\ uart_tx' = Tail(uart_tx)
  /\ tx_buffer' = TRUE
  /\ tx_in_progress' = FALSE
  /\ last' = [NoCall EXCEPT !.op = "transmit_complete"]
  /\ UNCHANGED <<running, rx_in_progress, tx_data, rx_buffer, rx_data,
                 command_buffer, command_index, uart_rx, line,
                 echoes, twin_buffer, twin_index>>

\* ---- mutant of branch: the room test forgets the terminator ----
branch_noroom(b, index, caplen, ok) ==
  IF ~ok THEN "none"
  ELSE IF b = LF \/ b = CR THEN "execute"
  ELSE IF b = BS /\ index > 0 THEN "backspace"
  ELSE IF index < caplen THEN "store"
  ELSE "drop"

\* the status and the length are not looked at
branch_nocheck(b, index, caplen, ok) ==
  IF b = LF \/ b = CR THEN "execute"
  ELSE IF b = BS /\ index > 0 THEN "backspace"
  ELSE IF index < caplen - 1 THEN "store"
  ELSE "drop"

\* The if/else-if chain of receive_complete on the received byte.
branch(b, index, caplen, ok) ==
  IF ~ok THEN "none"
  ELSE IF b = LF \/ b = CR THEN "execute"
  ELSE IF b = BS /\ index > 0 THEN "backspace"
  ELSE IF index < caplen - 1 THEN "store"
  ELSE "drop"

\* writes past the end of the buffer do not happen in the model: the slot
\* does not exist
Put(command, i, v) == IF i \in 1..Len(command) THEN [command EXCEPT ![i] = v] ELSE command

\* ---- mutants of edit ----
\* the store does not write the terminator
edit_noterm(br, command, index, b) ==
  IF br = "backspace"
  THEN [command |-> Put(command, index, NUL), index |-> index - 1]
  ELSE IF br = "store"
  THEN [command |-> Put(command, index + 1, b), index |-> index + 1]
  ELSE [command |-> command, index |-> index]

\* the backspace clears the slot at the cursor instead of the one before it
edit_bsslot(br, command, index, b) ==
  IF br = "backspace"
  THEN [command |-> Put(command, index + 1, NUL), index |-> index - 1]
  ELSE IF br = "store"
  THEN [command |-> Put(Put(command, index + 1, b), index + 2, NUL),
        index |-> index + 1]
  ELSE [command |-> command, index |-> index]

\* The command-buffer edits of receive_complete (sequences are 1-based:
\* command[index] of the code is slot index + 1).
edit(br, command, index, b) ==
  IF br = "backspace"
  THEN [command |-> Put(command, index, NUL), index |-> index - 1]
  ELSE IF br = "store"
  THEN [command |-> Put(Put(command, index + 1, b), index + 2, NUL),
        index |-> index + 1]
  ELSE [command |-> command, index |-> index]

\* ---- mutant of echo: only printable bytes are echoed ----
echo_printable(br, tx, b) ==
  IF br = "backspace"
  THEN [fn |-> "write_bytes", bytes |-> <<BS, SPACE, BS>>,
        r |-> write_bytes(tx, <<BS, SPACE, BS>>)]
  ELSE IF br = "store" /\ b \in Printable
  THEN [fn |-> "write_byte", bytes |-> <<b>>, r |-> write_byte(tx, b)]
  ELSE [fn |-> "none", bytes |-> <<>>, r |-> [ret |-> "none", tx |-> tx]]

\* The echo requested by receive_complete in each branch.
echo(br, tx, b) ==
  IF br = "backspace"
  THEN [fn |-> "write_bytes", bytes |-> <<BS, SPACE, BS>>,
        r |-> write_bytes(tx, <<BS, SPACE, BS>>)]
  ELSE IF br = "store"
  THEN [fn |-> "write_byte", bytes |-> <<b>>, r |-> write_byte(tx, b)]
  ELSE [fn |-> "none", bytes |-> <<>>, r |-> [ret |-> "none", tx |-> tx]]

\* ---- mutant of rearm: no new request after an error ----
rearm_onlyok(pending, error) ==
  IF error = "CommandComplete" THEN Append(pending, 1) ELSE pending

\* The re-arm of receive_complete: uart.receive(read_buf, 1).
rearm(pending, error) == Append(pending, 1)

\* The typed-line history: printable bytes delivered one per callback
\* since the cursor was last reset.
NextLine(br, ok, b, caplen) ==
  IF br = "execute" THEN <<>>
  ELSE IF ok /\ b \in Printable /\ line # Dirty /\ Len(line) < caplen - 1
  THEN Append(line, b)
  ELSE Dirty

\* The transmit side of a console whose transmits have all completed.
TxIdle ==
  [in_progress |-> FALSE, held |-> TRUE, data |-> tx_data, uart |-> <<>>]

\* ---- mutant of receive_body: the edit is made only if the echo was accepted ----
receive_body_gated(tx, command, index, b, ok) ==
  LET br == branch(b, index, Len(command), ok)
      w == echo(br, tx, b)
      ed == IF w.r.ret = "EBUSY" THEN [command |-> command, index |-> index]
            ELSE edit(br, command, index, b)
      rc == IF br = "execute" THEN read_command(ed.command, ed.index)
            ELSE [command |-> ed.command, index |-> ed.index, handed |-> <<>>]
  IN [br |-> br, w |-> w, command |-> rc.command, index |-> rc.index,
      handed |-> rc.handed]

\* What receive_complete does with the byte b on a console whose transmit
\* side is tx and whose command buffer and cursor are command and index:
\* the echo, the edit and, after the re-arm, read_command.
receive_body(tx, command, index, b, ok) ==
  LET br == branch(b, index, Len(command), ok)
      w == echo(br, tx, b)
      ed == edit(br, command, index, b)
      rc == IF br = "execute" THEN read_command(ed.command, ed.index)
            ELSE [command |-> ed.command, index |-> ed.index, handed |-> <<>>]
  IN [br |-> br, w |-> w, command |-> rc.command, index |-> rc.index,
      handed |-> rc.handed]

\* ---- mutant of order: the receive buffer is handed back first ----
order_rearmfirst(br, ok) ==
  <<"receive">>
  \o (IF ok THEN <<"read_buf">> ELSE <<>>)
  \o (IF br = "backspace" THEN <<"write_bytes", "command">>
      ELSE IF br = "store" THEN <<"write_byte", "read_buf", "command">>
      ELSE <<>>)
  \o (IF br = "execute" THEN <<"read_command">> ELSE <<>>)

\* The order of the statements of receive_complete: the reads of read_buf[0]
\* (lines 169-172, 180-181), the echo request and the command-buffer edit of
\* the branch taken, uart.receive (line 191), read_command (line 193).
order(br, ok) ==
  (IF ok THEN <<"read_buf">> ELSE <<>>)
  \o (IF br = "backspace" THEN <<"write_bytes", "command">>
      ELSE IF br = "store" THEN <<"write_byte", "read_buf", "command">>
      ELSE <<>>)
  \o <<"receive">>
  \o (IF br = "execute" THEN <<"read_command">> ELSE <<>>)

\* The echo history of the current line: one entry per write call, with its
\* return code and the transmit requests it issued.
NextEchoes(w, tx) ==
  IF echoes = Off THEN Off
  ELSE LET base == IF line = <<>> THEN <<>> ELSE echoes
       IN IF w.fn = "none" THEN base
          ELSE Append(base, [fn |-> w.fn, ret |-> w.r.ret,
                             req |-> SubSeq(w.r.tx.uart, Len(tx.uart) + 1,
                                            Len(w.r.tx.uart))])

\* Client::receive_complete, delivered by the UART for its oldest
\* outstanding receive request; the UART has stored the byte in read_buf[0].
receive_complete(byte, rx_len, error) ==
  /\ uart_rx # <<>>
  /\ \E read_buf \in {IF rx_len >= 1 THEN [rx_data EXCEPT ![1] = byte] ELSE rx_data},
        ok \in {error = "CommandComplete" /\ rx_len = 1} :
     \E body \in {receive_body(TxNow, command_buffer, command_index, read_buf[1], ok)},
        twin \in {receive_body(TxIdle, twin_buffer, twin_index, read_buf[1], ok)},
        pending \in {rearm(Tail(uart_rx), error)} :
     LET index == command_index
         b == read_buf[1]
         br == body.br
         w == body.w
         execute == br = "execute"
     IN /\ rx_data' = read_buf
        /\ tx_in_progress' = w.r.tx.in_progress
        /\ tx_buffer' = w.r.tx.held
        /\ tx_data' = w.r.tx.data
        /\ uart_tx' = w.r.tx.uart
        /\ rx_in_progress' = TRUE
        /\ uart_rx' = pending
        /\ command_buffer' = body.command
        /\ command_index' = body.index
        /\ line' = NextLine(br, ok, b, Len(command_buffer))
        /\ echoes' = NextEchoes(w, TxNow)
        /\ twin_buffer' = twin.command
        /\ twin_index' = twin.index
        /\ last' = [op |-> "receive_complete", ret |-> "none", byte |-> byte,
                    len |-> rx_len, err |-> error, index |-> index,
                    wfn |-> w.fn, wret |-> w.r.ret,
                    rx_issued |-> SubSeq(pending, Len(uart_rx), Len(pending)),
                    execute |-> execute, handed |-> body.handed,
                    typed |-> IF execute THEN line ELSE <<>>,
                    bytes |-> w.bytes, order |-> order(br, ok),
                    twin_handed |-> twin.handed]
        /\ UNCHANGED <<running, rx_buffer>>

Next ==
  \/ start
  \/ \E e \in Errors : transmit_complete(e)
  \/ \E e \in Errors, l \in RxLens :
       \E byte \in (IF l = 0 THEN {NUL} ELSE InBytes) : receive_complete(byte, l, e)

Spec == Init /\ [][Next]_vars


\* ---- the write operations on their own ----
\* byte values written: backspace and 'h'
WriteBytes == {BS, 104}
WriteArgs == UNION {[1..n -> WriteBytes] : n \in 0..MaxWrite}

\* A console built on a transmit buffer of 1..MaxTxCap bytes.
InitWrite ==
  /\ running = FALSE
  /\ tx_in_progress = FALSE
  /\ rx_in_progress = FALSE
  /\ tx_buffer = TRUE
  /\ \E c \in 1..MaxTxCap : tx_data = Zeros(c)
  /\ rx_buffer = TRUE
  /\ rx_data = Zeros(RxCap)
  /\ command_buffer = Zeros(2)
  /\ command_index = 0
  /\ uart_tx = <<>>
  /\ uart_rx = <<>>
  /\ line = <<>>
  /\ last = NoCall
  /\ echoes = Off
  /\ twin_buffer = command_buffer
  /\ twin_index = 0

\* The effect of a write call on the console.
Written(fn, bytes, r) ==
  /\ tx_in_progress' = r.tx.in_progress
  /\ tx_buffer' = r.tx.held
  /\ tx_data' = r.tx.data
  /\ uart_tx' = r.tx.uart
  /\ last' = [NoCall EXCEPT !.op = fn, !.ret = r.ret, !.bytes = bytes,
                            !.wfn = fn, !.wret = r.ret]
  /\ UNCHANGED <<running, rx_in_progress, rx_buffer, rx_data, command_buffer,
                 command_index, uart_rx, line, echoes, twin_buffer, twin_index>>

\* a call of write_byte
write_byte_call(byte) == Written("write_byte", <<byte>>, write_byte(TxNow, byte))

\* a call of write_bytes
write_bytes_call(bytes) == Written("write_bytes", bytes, write_bytes(TxNow, bytes))

NextWrite ==
  \/ \E byte \in WriteBytes : write_byte_call(byte)
  \/ \E bytes \in WriteArgs : write_bytes_call(bytes)
  \/ \E e \in Errors : transmit_complete(e)

SpecWrite == InitWrite /\ [][NextWrite]_vars

\* ---- the 'h', 'i', newline scenario on the 16-byte COMMAND_BUF ----
\* bytes typed in the scenario: 'h', 'i' and LF
HiBytes == {104, 105, LF}

\* ProcessConsole::new with the static buffers; the echo history is recorded.
InitHi ==
  /\ running = FALSE
  /\ tx_in_progress = FALSE
  /\ rx_in_progress = FALSE
  /\ tx_buffer = TRUE
  /\ tx_data = Zeros(TxCap)
  /\ rx_buffer = TRUE
  /\ rx_data = Zeros(RxCap)
  /\ command_buffer = Zeros(CmdCap)
  /\ command_index = 0
  /\ uart_tx = <<>>
  /\ uart_rx = <<>>
  /\ line = <<>>
  /\ last = NoCall
  /\ echoes = <<>>
  /\ twin_buffer = command_buffer
  /\ twin_index = 0

\* One byte of the scenario arrives; lines are at most MaxTyped bytes long.
hi_receive(byte) ==
  /\ byte = LF \/ Len(line) < MaxTyped
  /\ receive_complete(byte, 1, "CommandComplete")

NextHi ==
  \/ start
  \/ \E e \in Errors : transmit_complete(e)
  \/ \E byte \in HiBytes : hi_receive(byte)

SpecHi == InitHi /\ [][NextHi]_vars

\* The UART completes every transmit request it was given.
FairHi == SpecHi /\ WF_vars(\E e \in Errors : transmit_complete(e))

\* ---- the steps the claims are about ----
RcStep == last'.op = "receive_complete"
RcByte(b) ==
  /\ last'.op = "receive_complete"
  /\ last'.byte = b
  /\ last'.len = 1
  /\ last'.err = "CommandComplete"
Erase == <<BS, SPACE, BS>>

\* C1: every receive_complete, whatever the byte, the reported length and
\* the status, issues exactly one new receive request, of length 1.
C1_RearmOnce ==
  [][RcStep => /\ uart_rx # <<>>
               /\ uart_rx' = Append(Tail(uart_rx), 1)
               /\ last'.rx_issued = <<1>>]_vars

C1_Witness ==
  /\ last.op = "receive_complete"
  /\ last.err = "ParityError"
  /\ last.len = 2
  /\ uart_rx = <<1>>

\* C2 (as claimed): a backspace delivered at cursor 0 leaves the command
\* buffer and the cursor unchanged and issues no transmit request.
C2_BackspaceAtZeroNoop ==
  [][(RcByte(BS) /\ command_index = 0)
       => /\ command_buffer' = command_buffer
          /\ command_index' = command_index
          /\ uart_tx' = uart_tx]_vars

\* C3: a write_byte or write_bytes made while tx_in_progress is true returns
\* EBUSY, issues no transmit request and leaves the transmit buffer, its
\* ownership and the flags unchanged; nothing is sent later on its behalf.
C3_BusyWriteRejected ==
  [][/\ (RcStep /\ last'.wfn # "none" /\ tx_in_progress)
          => /\ last'.wret = "EBUSY"
             /\ UNCHANGED <<tx_in_progress, tx_buffer, tx_data, uart_tx>>
     /\ (last'.op = "transmit_complete") => uart_tx' = Tail(uart_tx)]_vars

C3_Witness ==
  /\ last.op = "receive_complete"
  /\ last.wfn = "write_bytes"
  /\ last.wret = "EBUSY"
  /\ tx_in_progress

\* C4: printable bytes (at most capacity-1 of them) typed from an empty
\* buffer and followed by a newline are handed to read_command as exactly
\* that sequence followed by NUL, and the cursor is 0 after the hand-off.
C4_LineHandedOff ==
  (last.op = "receive_complete" /\ last.execute /\ last.typed # Dirty)
    => /\ Len(last.handed) > Len(last.typed)
       /\ SubSeq(last.handed, 1, Len(last.typed) + 1) = last.typed \o <<NUL>>
       /\ command_index = 0

C4_Witness ==
  /\ last.op = "receive_complete"
  /\ last.execute
  /\ last.typed = <<104, 105>>
  /\ last.handed = <<104, 105, NUL>>

\* C5 (as claimed): a backspace delivered at cursor > 0 clears the byte at
\* cursor-1, decrements the cursor, keeps the other bytes and emits the
\* 3-byte erase sequence.
C5_BackspaceAlwaysEchoes ==
  [][(RcByte(BS) /\ command_index > 0)
       => /\ command_buffer' = [command_buffer EXCEPT ![command_index] = NUL]
          /\ command_index' = command_index - 1
          /\ uart_tx' = Append(uart_tx, Erase)]_vars

\* C5 (amended): a backspace delivered at cursor > 0 clears the byte at
\* cursor-1, decrements the cursor, keeps the other bytes and requests the
\* erase sequence through write_bytes: it is transmitted as one 3-byte
\* request when no transmit is in progress and dropped (EBUSY) otherwise.
C5_BackspaceErases ==
  [][(RcByte(BS) /\ command_index > 0)
       => /\ command_buffer' = [command_buffer EXCEPT ![command_index] = NUL]
          /\ command_index' = command_index - 1
          /\ last'.wfn = "write_bytes"
          /\ IF tx_in_progress
             THEN last'.wret = "EBUSY" /\ uart_tx' = uart_tx
             ELSE last'.wret = "SUCCESS" /\ uart_tx' = Append(uart_tx, Erase)]_vars

C5_Witness ==
  /\ last.op = "receive_complete"
  /\ last.byte = BS
  /\ last.index = 2
  /\ command_index = 1
  /\ command_buffer[1] # NUL
  /\ last.wret = "SUCCESS"
  /\ uart_tx = <<Erase>>

\* C6: at cursor = capacity-1 a byte other than backspace, CR or LF changes
\* neither the command buffer nor the cursor and is not echoed; the cursor
\* never exceeds capacity-1 and a store never writes past the buffer's end.
C6_FullBufferDrops ==
  /\ [][/\ (RcStep /\ command_index = Len(command_buffer) - 1
                   /\ last'.byte \notin {BS, CR, LF})
            => UNCHANGED <<command_buffer, command_index, uart_tx, tx_data>>
        /\ (RcStep /\ last'.wfn = "write_byte")
            => command_index + 2 <= Len(command_buffer)]_vars
  /\ [](command_index <= Len(command_buffer) - 1)

C6_Witness ==
  /\ last.op = "receive_complete"
  /\ last.byte = 104
  /\ last.len = 1
  /\ last.err = "CommandComplete"
  /\ last.index = Len(command_buffer) - 1
  /\ command_index = last.index
  /\ last.wfn = "none"

\* C7: between callbacks the cursor lies in 0..capacity-1 and the command
\* buffer holds NUL at the cursor.
C7_CursorTerminated ==
  /\ command_index \in 0..(Len(command_buffer) - 1)
  /\ command_buffer[command_index + 1] = NUL

C7_Witness ==
  /\ last.op = "receive_complete"
  /\ last.execute
  /\ command_index = 0
  /\ command_buffer[2] # NUL

\* C8: at most one transmit request and at most one receive request are
\* outstanding at the UART.
C8_OneOutstanding ==
  /\ Len(uart_tx) <= 1
  /\ Len(uart_rx) <= 1

C8_Witness ==
  /\ Len(uart_tx) = 1
  /\ Len(uart_rx) = 1
  /\ last.op = "receive_complete"
  /\ last.wfn = "write_byte"
  /\ last.wret = "EBUSY"

\* C9: the transmit buffer has one owner: the console holds it exactly when
\* tx_in_progress is false, the UART exactly when it is true; the console
\* writes it only while holding it and regains it only in transmit_complete.
C9_TxOwnership ==
  /\ [](/\ tx_buffer <=> ~tx_in_progress
        /\ tx_in_progress <=> (Len(uart_tx) = 1)
        /\ Len(uart_tx) <= 1)
  /\ [][/\ (tx_data' # tx_data) => tx_buffer
        /\ (~tx_buffer /\ tx_buffer') => last'.op = "transmit_complete"
        /\ (tx_buffer /\ ~tx_buffer') => Len(uart_tx') = Len(uart_tx) + 1]_vars

C9_Witness ==
  /\ last.op = "transmit_complete"
  /\ tx_buffer
  /\ ~tx_in_progress
  /\ tx_data[1] # NUL

\* C10: the first start takes the receive buffer, issues one length-1
\* receive request and sets running and rx_in_progress; a later start issues
\* nothing and changes nothing; both return SUCCESS.
C10_StartIdempotent ==
  [][(last'.op = "start")
       => /\ last'.ret = "SUCCESS"
          /\ IF ~running
             THEN /\ rx_buffer /\ ~rx_buffer'
                  /\ uart_rx' = Append(uart_rx, 1)
                  /\ running' /\ rx_in_progress'
                  /\ UNCHANGED <<tx_in_progress, tx_buffer, tx_data, rx_data,
                                 command_buffer, command_index, uart_tx>>
             ELSE UNCHANGED pvars /\ last'.rx_issued = <<>>]_vars

C10_Witness ==
  /\ last.op = "start"
  /\ last.ret = "SUCCESS"
  /\ running
  /\ last.rx_issued = <<>>
  /\ uart_rx = <<1>>


\* C11: once start has armed the first receive, exactly one receive request
\* is outstanding between callbacks and running and rx_in_progress stay true.
C11_StaysArmed ==
  /\ [](running => (Len(uart_rx) = 1 /\ rx_in_progress))
  /\ []((uart_rx # <<>>) => running)
  /\ [][running => running']_vars

C11_Witness ==
  /\ running
  /\ rx_in_progress
  /\ last.op = "receive_complete"
  /\ last.err = "ParityError"
  /\ last.len = 0
  /\ Len(uart_rx) = 1

\* C13: a receive_complete whose status is not CommandComplete or whose
\* length is not 1 changes neither the command buffer nor the cursor, makes
\* no echo write, hands off no line, and still re-arms the receive.
C13_AnomalyIgnored ==
  [][(RcStep /\ (last'.err # "CommandComplete" \/ last'.len # 1))
       => /\ UNCHANGED <<command_buffer, command_index, tx_in_progress,
                         tx_buffer, tx_data, uart_tx>>
          /\ last'.wfn = "none"
          /\ ~last'.execute
          /\ last'.handed = <<>>
          /\ uart_rx' = Append(Tail(uart_rx), 1)]_vars

C13_Witness ==
  /\ last.op = "receive_complete"
  /\ last.err = "CommandComplete"
  /\ last.len = 2
  /\ last.byte = LF
  /\ last.index > 0
  /\ command_index = last.index
  /\ uart_rx = <<1>>

\* C15: a CR or LF received with CommandComplete and length 1 hands the line
\* off once, whatever the cursor; afterwards the cursor is 0 and
\* command_buffer[0] is NUL; the byte is not stored and nothing is echoed.
C15_NewlineHandsOff ==
  [][(RcByte(LF) \/ RcByte(CR))
       => /\ last'.execute
          /\ last'.handed = command_buffer
          /\ Len(SelectSeq(last'.order, LAMBDA x : x = "read_command")) = 1
          /\ command_index' = 0
          /\ command_buffer' = [command_buffer EXCEPT ![1] = NUL]
          /\ last'.wfn = "none"
          /\ UNCHANGED <<tx_in_progress, tx_buffer, tx_data, uart_tx>>]_vars

C15_Witness ==
  /\ last.op = "receive_complete"
  /\ last.byte = CR
  /\ last.execute
  /\ last.index = 2
  /\ last.handed[1] # NUL
  /\ command_index = 0
  /\ command_buffer[1] = NUL

\* the store case of C16
StoreCase ==
  /\ RcStep
  /\ last'.len = 1
  /\ last'.err = "CommandComplete"
  /\ last'.byte \notin {CR, LF, BS}
  /\ command_index < Len(command_buffer) - 1

Stored ==
  /\ command_buffer' = [command_buffer EXCEPT ![command_index + 1] = last'.byte,
                                              ![command_index + 2] = NUL]
  /\ command_index' = command_index + 1

\* C16 (as claimed): a byte other than CR, LF and backspace received while
\* cursor < capacity-1 is stored at the cursor, the cursor moves by one, NUL
\* is written after it, and the raw byte is echoed.
C16_StoreAlwaysEchoes ==
  [][StoreCase => (Stored /\ uart_tx' = Append(uart_tx, <<last'.byte>>))]_vars

\* C16 (amended): such a byte is stored at the cursor, the cursor moves by
\* one, NUL is written after it, and the raw byte is passed to write_byte,
\* which transmits it when no transmit is in progress and drops it (EBUSY)
\* when one is.
C16_StoreAndEchoRequest ==
  [][StoreCase
       => /\ Stored
          /\ last'.wfn = "write_byte"
          /\ last'.bytes = <<last'.byte>>
          /\ IF tx_in_progress
             THEN last'.wret = "EBUSY" /\ uart_tx' = uart_tx
             ELSE /\ last'.wret = "SUCCESS"
                  /\ uart_tx' = Append(uart_tx, <<last'.byte>>)]_vars

C16_Witness ==
  /\ last.op = "receive_complete"
  /\ last.byte = NUL
  /\ last.len = 1
  /\ last.err = "CommandComplete"
  /\ last.index = 1
  /\ command_index = 2
  /\ command_buffer[1] = 104
  /\ last.wret = "SUCCESS"
  /\ uart_tx = << <<NUL>> >>

\* C17: transmit_complete returns the transmit buffer and clears
\* tx_in_progress and changes nothing else; the command buffer and the
\* cursor change in receive_complete only.
C17_TransmitCompleteFrame ==
  [][/\ (last'.op = "transmit_complete")
          => /\ tx_buffer' /\ ~tx_in_progress'
             /\ UNCHANGED <<command_buffer, command_index, running,
                            rx_in_progress, rx_buffer, rx_data, uart_rx,
                            tx_data>>
     /\ (command_buffer' # command_buffer \/ command_index' # command_index)
          => RcStep]_vars

C17_Witness ==
  /\ last.op = "transmit_complete"
  /\ command_index > 0
  /\ running
  /\ uart_rx = <<1>>
  /\ tx_buffer
  /\ ~tx_in_progress

\* C18: the command buffer, the cursor and the lines handed off are the same
\* as those of a console fed the same bytes whose transmitter is never busy:
\* they do not depend on when transmit_complete arrives.
C18_EditorIgnoresTransmit ==
  /\ command_buffer = twin_buffer
  /\ command_index = twin_index
  /\ last.handed = last.twin_handed

C18_Witness ==
  /\ last.op = "receive_complete"
  /\ last.wfn = "write_byte"
  /\ last.wret = "EBUSY"
  /\ command_index = last.index + 1
  /\ command_buffer[command_index] = last.byte
  /\ twin_index = command_index

Pos(seq, x) == {i \in 1..Len(seq) : seq[i] = x}

C12_WriteCopies ==
  [][/\ (last'.op = "write_bytes" /\ ~tx_in_progress)
          => LET n == Min(Len(last'.bytes), Len(tx_data))
             IN /\ Len(tx_data') = Len(tx_data)
                /\ \A i \in 1..Len(tx_data) :
                     tx_data'[i] = IF i <= n THEN last'.bytes[i] ELSE tx_data[i]
                /\ uart_tx' = Append(uart_tx, SubSeq(last'.bytes, 1, n))
                /\ tx_in_progress'
                /\ last'.ret = "SUCCESS"
     /\ (last'.op = "write_byte" /\ ~tx_in_progress)
          => /\ tx_data' = [tx_data EXCEPT ![1] = last'.bytes[1]]
             /\ uart_tx' = Append(uart_tx, <<last'.bytes[1]>>)
             /\ tx_in_progress'
             /\ last'.ret = "SUCCESS"]_vars

C12_Witness ==
  /\ last.op = "write_bytes"
  /\ last.ret = "SUCCESS"
  /\ Len(tx_data) = 2
  /\ last.bytes = <<104, BS, 104>>
  /\ tx_data = <<104, BS>>
  /\ uart_tx = << <<104, BS>> >>
  /\ tx_in_progress


\* the bytes 'h', 'i' and a newline have just been processed, from an empty
\* line
HiDone ==
  /\ last.op = "receive_complete"
  /\ last.execute
  /\ last.typed = <<104, 105>>
  /\ Len(command_buffer) = CmdCap

EchoSent(b) == [fn |-> "write_byte", ret |-> "SUCCESS", req |-> << <<b>> >>]
EchoDropped == [fn |-> "write_byte", ret |-> "EBUSY", req |-> <<>>]

\* C14 (as claimed): after 'h', 'i', newline on a 16-byte command buffer the
\* buffer reads "hi" NUL, the cursor is 0 and exactly the echo bytes 'h'
\* then 'i' were sent.
C14_HiScenario ==
  HiDone => /\ SubSeq(command_buffer, 1, 3) = <<104, 105, NUL>>
            /\ command_index = 0
            /\ echoes = <<EchoSent(104), EchoSent(105)>>

\* C14 (amended): after 'h', 'i', newline on a 16-byte command buffer the
\* buffer handed to read_command reads "hi" NUL; after the hand-off its first
\* byte is zeroed, the cursor is 0, and the echo writes 'h' then 'i' were
\* made, each one transmitted unless a transmit was still in progress, in
\* which case it was dropped.
C14_HiHandedOff ==
  HiDone => /\ SubSeq(last.handed, 1, 3) = <<104, 105, NUL>>
            /\ SubSeq(command_buffer, 1, 3) = <<NUL, 105, NUL>>
            /\ command_index = 0
            /\ Len(echoes) = 2
            /\ echoes[1] \in {EchoSent(104), EchoDropped}
            /\ echoes[2] \in {EchoSent(105), EchoDropped}

C14_Witness ==
  /\ HiDone
  /\ last.handed[1] = 104
  /\ command_buffer[1] = NUL
  /\ echoes = <<EchoSent(104), EchoSent(105)>>

====
